---- MODULE Spec2Model ----
(***************************************************************************)
(* State-machine model of the simrail-map-optimized backend core:          *)
(*   - the Periodic Fetch Scheduler  (class Fetcher, src/unnamed/part_001) *)
(*   - the Route-Geometry engine     (analytics/route-worker.ts)           *)
(*   - the Signal-Topology engine    (analytics/signal-worker.ts)          *)
(* Every await of the source is a point where another handler may run, so  *)
(* each action is the synchronous code between two awaits.                 *)
(***************************************************************************)
EXTENDS Integers, Sequences, FiniteSets, TLC

VARIABLES
  \* ---- Fetcher (src/unnamed/part_001) ----
  refreshInterval,  \* this.refreshInterval, set by the constructor
  timeoutHandle,    \* this.timeoutHandle: 0 is null, else the id of a timer
  timers,           \* timers armed by setTimeout and not yet fired or cleared
  inFlight,         \* number of refreshData activations awaiting fetchData()
  data,             \* this.data (BehaviorSubject): last published value
  refreshCount,     \* this.refreshCount
  started,          \* number of start() calls made so far
  fev,              \* what the last Fetcher step did (history)
  \* ---- Route worker (analytics/route-worker.ts) ----
  RoutePoints,      \* Map route -> points; <<>> stands for an absent key
  saveCounter,      \* batches handled since the last flush
  routeFiles,       \* DATA_DIR: route -> the points written to its file
  routeAlive,       \* the worker thread runs (its message listener is installed)
  loaded,           \* route -> number of its points present at initial load (history)
  rev,              \* what the last route batch did (history)
  \* ---- Signal worker (analytics/signal-worker.ts) ----
  signals,          \* table signals: name -> record
  next_signals,     \* table next_signals: <<signal, next_signal>> -> copies
  prev_signals,     \* table prev_signals: <<signal, prev_signal>> -> copies
  cache,            \* TrainPreviousSignals: train id -> entry
  running,          \* the guard of analyzeTrains
  run,              \* the pending analyzeTrains call: its locals and its await
  calls,            \* "analyze" messages received so far (history)
  imp,              \* the bulk import: its records, passes and files
  sev               \* what the last signal-worker step did (history)

fetcherVars == <<refreshInterval, timeoutHandle, timers, inFlight, data,
                 refreshCount, started, fev>>

routeVars == <<RoutePoints, saveCounter, routeFiles, routeAlive, loaded, rev>>

signalVars == <<signals, next_signals, prev_signals, cache, running, run,
                calls, imp, sev>>

vars == <<fetcherVars, routeVars, signalVars>>

Max(a, b) == IF a >= b THEN a ELSE b
Min(a, b) == IF a <= b THEN a ELSE b

(***************************************************************************)
(* Route-Geometry Discovery Engine.  Coordinates are integers in units of  *)
(* 0.00001 degree, so MIN_DISTANCE = 0.0001 is 10 units; distances are      *)
(* compared through their squares (sqrt is monotone).                      *)
(***************************************************************************)
MaxBatch == 2         \* trains per batch explored
MIN_DISTANCE == 10    \* 0.0001 degree
FlushEvery == 10      \* the literal of `++saveCounter > 10`
Infinity == 1000000   \* larger than every squared distance of the model

Routes == {"501", "502"}
\* What a train may report.  From <<1,1>>: <<6,6>> is closer than the
\* threshold, <<11,1>> exactly at it, <<31,1>> beyond it; a latitude of 0 is
\* falsy in JavaScript.
RouteObservations ==
  [TrainNoLocal : {"501"}, Latititute : {1}, Longitute : {1}]
    \cup [TrainNoLocal : {"501"}, Latititute : {6}, Longitute : {6}]
    \cup [TrainNoLocal : {"501"}, Latititute : {11, 31}, Longitute : {1}]
    \cup [TrainNoLocal : {"502"}, Latititute : {1}, Longitute : {1}]
    \cup [TrainNoLocal : {"501"}, Latititute : {0}, Longitute : {1}]
RouteBatches ==
  UNION {[1..n -> RouteObservations] : n \in 0..MaxBatch}

\* The point sets found on disk at startup (pre-seeded data may hold points
\* closer together than the threshold).
InitialRouteFiles ==
  { [r \in Routes |-> <<>>],
    [r \in Routes |-> IF r = "501" THEN << <<1, 1>> >> ELSE <<>>],
    [r \in Routes |-> IF r = "501" THEN << <<1, 1>>, <<6, 6>> >> ELSE <<>>] }

\* !x of JavaScript for a coordinate: the number 0 is falsy (so are undefined
\* and NaN, which the inputs do not hold).
Falsy(x) == x = 0

\* distance(point1, point2) squared
Dist2(p, q) == (p[1] - q[1]) * (p[1] - q[1]) + (p[2] - q[2]) * (p[2] - q[2])

\* findDistanceToClosestPoint(route, lat, lon), squared, over the map rp
RECURSIVE ClosestFrom(_, _, _, _)
ClosestFrom(points, i, pos, closest) ==
  IF i > Len(points) THEN closest
  ELSE ClosestFrom(points, i + 1, pos,
                   IF Dist2(pos, points[i]) < closest
                   THEN Dist2(pos, points[i]) ELSE closest)

findDistanceToClosestPoint(rp, route, pos) ==
  IF rp[route] = <<>> THEN Infinity
  ELSE ClosestFrom(rp[route], 1, pos, Infinity)

FartherOrAtMin(closest2) == closest2 >= MIN_DISTANCE * MIN_DISTANCE

\* closestPoint > MIN_DISTANCE
FartherThanMin(closest2) == closest2 > MIN_DISTANCE * MIN_DISTANCE

\* The for loop of analyzeTrainsForRoutes from train i on; st holds the map
\* and the two counters.
RECURSIVE RouteLoop(_, _, _)
RouteLoop(trains, i, st) ==
  IF i > Len(trains) THEN st
  ELSE LET train == trains[i]
           pos == <<train.Latititute, train.Longitute>>
       IN IF Falsy(train.Latititute) \/ Falsy(train.Longitute)
          THEN RouteLoop(trains, i + 1, st)
          ELSE IF FartherThanMin(findDistanceToClosestPoint(st.rp, train.TrainNoLocal, pos))
               THEN RouteLoop(trains, i + 1,
                      [st EXCEPT !.rp[train.TrainNoLocal] = Append(@, pos),
                                 !.added = @ + 1])
               ELSE RouteLoop(trains, i + 1, [st EXCEPT !.discarded = @ + 1])

\* An append to the files in place of the overwrite.
appendRoutes(rp, files) == [r \in Routes |-> files[r] \o rp[r]]

\* saveRoutes(): one file per route of the map, overwritten with all its points
saveRoutes(rp, files) ==
  [r \in Routes |-> IF rp[r] # <<>> THEN rp[r] ELSE files[r]]

\* What the last batch did.  n is the number of batches handled since startup,
\* kept modulo 11; since is the number of batches handled since the last
\* flush (since startup before the first one), counted up to 11.
NoRev == [added |-> 0, discarded |-> 0, flushed |-> FALSE, n |-> 0, since |-> 0]
Handled(last, added, discarded, flushed) ==
  [added |-> added, discarded |-> discarded, flushed |-> flushed,
   n |-> (last.n + 1) % 11,
   since |-> IF flushed THEN 0 ELSE Min(last.since + 1, 11)]

RouteIdle ==
  /\ RoutePoints = [r \in Routes |-> <<>>]
  /\ saveCounter = 0
  /\ routeFiles = [r \in Routes |-> <<>>]
  /\ routeAlive = TRUE
  /\ loaded = [r \in Routes |-> 0]
  /\ rev = NoRev

\* Startup: every file of DATA_DIR is read into RoutePoints.
RouteInit ==
  /\ routeFiles \in InitialRouteFiles
  /\ RoutePoints = routeFiles
  /\ routeAlive = TRUE
  /\ loaded = [r \in Routes |-> Len(routeFiles[r])]
  /\ saveCounter = 0
  /\ rev = NoRev

\* parentPort.on("message", analyzeTrainsForRoutes)
analyzeTrainsForRoutes(trains) ==
  LET st == RouteLoop(trains, 1, [rp |-> RoutePoints, added |-> 0, discarded |-> 0])
      flush == saveCounter + 1 > FlushEvery
  IN /\ routeAlive
     /\ RoutePoints' = st.rp
     /\ saveCounter' = IF flush THEN 0 ELSE saveCounter + 1
     /\ routeFiles' = IF flush THEN saveRoutes(st.rp, routeFiles) ELSE routeFiles
     /\ rev' = Handled(rev, st.added, st.discarded, flush)
     /\ UNCHANGED <<routeAlive, loaded, fetcherVars, signalVars>>

RouteNext == \E trains \in RouteBatches : analyzeTrainsForRoutes(trains)

\* The batch whose flush is due, with writeFileSync throwing on the file of
\* route `failing`: the files of `written` were overwritten before it (the
\* routes ahead of it in the map's iteration order; the order is not kept here,
\* so any set of other routes).  saveRoutes and analyzeTrainsForRoutes have no
\* try/catch: the exception leaves the message listener uncaught, which ends
\* the worker thread.
analyzeTrainsForRoutesWriteThrows(trains, failing, written) ==
  LET st == RouteLoop(trains, 1, [rp |-> RoutePoints, added |-> 0, discarded |-> 0])
  IN /\ routeAlive
     /\ saveCounter + 1 > FlushEvery
     /\ st.rp[failing] # <<>>
     /\ failing \notin written
     /\ RoutePoints' = st.rp
     /\ saveCounter' = 0
     /\ routeFiles' = [r \in Routes |-> IF r \in written /\ st.rp[r] # <<>>
                                        THEN st.rp[r] ELSE routeFiles[r]]
     /\ routeAlive' = FALSE
     /\ rev' = Handled(rev, st.added, st.discarded, FALSE)
     /\ UNCHANGED <<loaded, fetcherVars, signalVars>>

RouteFailNext ==
  \/ RouteNext
  \/ \E trains \in RouteBatches, failing \in Routes, written \in SUBSET Routes :
       analyzeTrainsForRoutesWriteThrows(trains, failing, written)


(***************************************************************************)
(* Periodic Fetch Scheduler.  Time unit: 1 = 1000 ms.                      *)
(***************************************************************************)
MaxStarts == 2        \* start() calls explored
MaxCount == 3         \* successful refreshes explored
DefaultInterval == 5  \* defaultRefreshInterval passed by the caller (5000 ms)

\* Values of process.env[`${module}_REFRESH_INTERVAL`]: unset, or a text.
EnvValues == {"unset", "abc", "0", "-1", "3"}
Durations == {1, 5, 6}     \* how long a fetchData() call may take
Values == {"v1", "v2"}     \* what fetchData() may resolve to

\* parseInt(text) * 1000 in the model's time unit; "abc" parses to NaN.
ParseIntIsNaN(text) == text = "abc"
ParseIntSeconds(text) ==
  CASE text = "0" -> 0 [] text = "-1" -> -1 [] text = "3" -> 3 [] OTHER -> 0

\* constructor: (env && parseInt(env) * 1000) || defaultRefreshInterval
\* (an unset variable, NaN and 0 are falsy, so the default is taken).
ConstructInterval(env, dflt) ==
  IF env = "unset" \/ ParseIntIsNaN(env) \/ ParseIntSeconds(env) = 0
  THEN dflt
  ELSE ParseIntSeconds(env)

NoFev == [op |-> "new", prev |-> "new", elapsed |-> 0]

FetcherIdle ==
  /\ refreshInterval = DefaultInterval
  /\ timeoutHandle = 0
  /\ timers = {}
  /\ inFlight = 0
  /\ data = "null"
  /\ refreshCount = 0
  /\ started = 0
  /\ fev = NoFev

FetcherInit ==
  /\ \E env \in EnvValues : refreshInterval = ConstructInterval(env, DefaultInterval)
  /\ timeoutHandle = 0
  /\ timers = {}
  /\ inFlight = 0
  /\ data = "null"
  /\ refreshCount = 0
  /\ started = 0
  /\ fev = NoFev

TimerIds == {t.id : t \in timers}
FreshTimer == CHOOSE i \in 1..(Cardinality(timers) + 1) : i \notin TimerIds

\* clearTimeout(h): a pending timer with that id is cancelled.
ClearTimeout(ts, h) == {t \in ts : t.id # h}

\* Math.max(0, this.refreshInterval - time)
NextDelay(time) == Max(0, refreshInterval - time)

\* refreshData up to its await: clear the stored timer, null the handle and
\* call fetchData().  ts is the set of timers still pending when it runs.
RefreshBegin(ts) ==
  /\ timers' = (IF timeoutHandle # 0 THEN ClearTimeout(ts, timeoutHandle) ELSE ts)
  /\ timeoutHandle' = 0
  /\ inFlight' = inFlight + 1
  /\ fev' = [op |-> "fetch", prev |-> fev.op, elapsed |-> 0]
  /\ UNCHANGED <<refreshInterval, data, refreshCount, routeVars, signalVars>>

\* public start()
Start ==
  /\ started < MaxStarts
  /\ started' = started + 1
  /\ RefreshBegin(timers)

\* A timer armed by refreshData fires and runs refreshData again.
TimerFire ==
  /\ \E t \in timers : RefreshBegin(timers \ {t})
  /\ UNCHANGED started

\* setTimeout(() => this.refreshData(), Math.max(0, interval - time))
ArmTimer(time) ==
  /\ timers' = timers \cup {[id |-> FreshTimer, delay |-> NextDelay(time)]}
  /\ timeoutHandle' = FreshTimer

\* fetchData() resolved after `elapsed`: publish, measure, count, re-arm.
FetchResolve ==
  /\ inFlight > 0
  /\ refreshCount < MaxCount
  /\ \E v \in Values, elapsed \in Durations :
       /\ data' = v
       /\ ArmTimer(elapsed)
       /\ fev' = [op |-> "resolve", prev |-> fev.op, elapsed |-> elapsed]
  /\ refreshCount' = refreshCount + 1
  /\ inFlight' = inFlight - 1
  /\ UNCHANGED <<refreshInterval, started, routeVars, signalVars>>

FetchRejectNoRearm ==
  /\ inFlight > 0
  /\ \E elapsed \in Durations :
       fev' = [op |-> "reject", prev |-> fev.op, elapsed |-> elapsed]
  /\ inFlight' = inFlight - 1
  /\ UNCHANGED <<refreshInterval, data, refreshCount, started, timers,
                 timeoutHandle, routeVars, signalVars>>

\* fetchData() rejected after `elapsed`: the catch logs; `time` is still 0.
FetchReject ==
  /\ inFlight > 0
  /\ \E elapsed \in Durations :
       /\ ArmTimer(0)
       /\ fev' = [op |-> "reject", prev |-> fev.op, elapsed |-> elapsed]
  /\ inFlight' = inFlight - 1
  /\ UNCHANGED <<refreshInterval, data, refreshCount, started, routeVars, signalVars>>

FetcherNext == Start \/ TimerFire \/ FetchResolve \/ FetchReject

(***************************************************************************)
(* Signal-Topology Inference Engine: data, patterns, tables and cache.     *)
(***************************************************************************)
TTL == 1             \* ttl of the cache: 1 hour, the clock tick of the model
CloseEnough == 5     \* DistanceToSignalInFront < 5
MaxCalls == 2        \* "analyze" messages explored
MaxTrains == 1       \* trains per live batch explored

SignalIds == {"A1_1", "A1_2", "A1_2A", "A1_3A", "Sp_A"}
EdgeNames == SignalIds \cup {""}

\* The characters of an id.
Chars(id) ==
  CASE id = "A1_1" -> <<"A", "1", "_", "1">>
    [] id = "A1_2" -> <<"A", "1", "_", "2">>
    [] id = "A1_2A" -> <<"A", "1", "_", "2", "A">>
    [] id = "A1_3A" -> <<"A", "1", "_", "3", "A">>
    [] id = "Sp_A" -> <<"S", "p", "_", "A">>
    [] OTHER -> <<>>

UpperChars == {"A", "S"}                 \* [A-Z]
LowerChars == {"p", "x"}
DigitChars == {"1", "2", "3"}                \* \d
WordChars == UpperChars \cup LowerChars \cup DigitChars \cup {"_"}   \* \w

AllDigits(s, a, b) == a <= b /\ \A k \in a..b : s[k] \in DigitChars

\* s[1..m] matches \w\d+_\d+
MatchesStem(s, m) ==
  /\ m <= Len(s) /\ m >= 4
  /\ s[1] \in WordChars
  /\ \E u \in 3..(m - 1) :
       s[u] = "_" /\ AllDigits(s, 2, u - 1) /\ AllDigits(s, u + 1, m)

\* /^\w\d+_\d+\w?$/.test(s)
BLOCK_SIGNAL_REGEX(s) ==
  \/ MatchesStem(s, Len(s))
  \/ (Len(s) >= 5 /\ MatchesStem(s, Len(s) - 1) /\ s[Len(s)] \in WordChars)

\* /^\w\d+_\d+[A-Z]$/.test(s)
BLOCK_SIGNAL_REVERSE_REGEX(s) ==
  Len(s) >= 5 /\ MatchesStem(s, Len(s) - 1) /\ s[Len(s)] \in UpperChars

\* train.TrainData.SignalInFront is `id` or `id@extra`; an empty id with no
\* extra stands for a missing field.
SignalInFrontChars(sif) ==
  Chars(sif.id) \o (IF sif.extra THEN <<"@", "x">> ELSE <<>>)

\* A signals row; type "" is an unset classification.
NoSignal == [exists |-> FALSE, accuracy |-> 0, type |-> "", point |-> <<0, 0>>]
NoSigs == [n \in SignalIds |-> NoSignal]

\* prisma.signals.findUnique({ where: { name } })
findUnique(name) == signals[name]

\* The edge tables hold rows <<signal, other>>.
EdgeRows == SignalIds \X EdgeNames
EmptyTable == [row \in EdgeRows |-> 0]

NoUniqueKey(t, row) == FALSE
\* The unique key (signal, other) of next_signals and prev_signals.
UniqueViolation(t, row) == t[row] > 0

AddRow(t, row) == [t EXCEPT ![row] = @ + 1]

\* INSERT ... ON CONFLICT DO NOTHING
InsertOnConflictDoNothing(t, row) ==
  IF UniqueViolation(t, row) THEN t ELSE AddRow(t, row)

\* SELECT other FROM t WHERE signal = s
SelectOthers(t, s) == {o \in EdgeNames : t[<<s, o>>] > 0}

RECURSIVE SumOver(_, _)
SumOver(f, S) ==
  IF S = {} THEN 0
  ELSE LET x == CHOOSE y \in S : TRUE IN f[x] + SumOver(f, S \ {x})

\* the .length of that SELECT's result
RowCount(t, s) == SumOver(t, {s} \X EdgeNames)

\* A DELETE that removes no row.
KeepAllRows(t, s, keep) == t

\* DELETE FROM t WHERE signal = s AND other != keep
DeleteOthersExcept(t, s, keep) ==
  [row \in EdgeRows |-> IF row[1] = s /\ row[2] # keep THEN 0 ELSE t[row]]

(* TrainPreviousSignals: an LRUCache with ttl, ttlAutopurge, updateAgeOnGet. *)
TrainIds == {"t1", "t2"}
NoEntry == [has |-> FALSE, value |-> "", age |-> 0]
Stale(e) == e.age > TTL
UpdateAgeOff == FALSE
\* updateAgeOnGet: true
UpdateAgeOnGet == TRUE

\* TrainPreviousSignals.get(k): the value ("" for undefined) and the cache
\* after it; a stale entry is dropped, a live one has its age reset.
CacheGet(c, k) ==
  IF c[k].has /\ ~Stale(c[k])
  THEN [value |-> c[k].value,
        cache |-> IF UpdateAgeOnGet THEN [c EXCEPT ![k].age = 0] ELSE c]
  ELSE [value |-> "", cache |-> [c EXCEPT ![k] = NoEntry]]

\* A set that stores nothing.
CacheKeep(c, k, v) == c

\* TrainPreviousSignals.set(k, v)
CacheSet(c, k, v) == [c EXCEPT ![k] = [has |-> TRUE, value |-> v, age |-> 0]]

(***************************************************************************)
(* Live inference path: analyzeTrains.  run.pc names the database call the *)
(* pending run awaits; the operators below are the synchronous code that   *)
(* runs from one await to the next.                                        *)
(***************************************************************************)
IdleRun ==
  [pc |-> "idle", trains |-> <<>>, i |-> 0, sigs |-> NoSigs,
   prevSignalId |-> "", prevKnown |-> FALSE, rows |-> {}, points |-> {},
   keep |-> "", found |-> NoSignal]

\* The last step worth recording: its operation, the row or entry it touched
\* and what was stored before it.
NoSev == [op |-> "none", id |-> "", keep |-> "", before |-> {}, age |-> 0]
Did(op) == [NoSev EXCEPT !.op = op]

Cur(r) == r.trains[r.i]
CurId(r) == Cur(r).SignalInFront.id                      \* signalId
CurPos(r) == <<Cur(r).Latititute, Cur(r).Longitute>>
SignalKnown(r) == r.sigs[CurId(r)].exists                \* `signal` is found

Res(r, c, g) == [run |-> r, cache |-> c, running |-> g]
Await(r, c, pc) == Res([r EXCEPT !.pc = pc], c, TRUE)

RECURSIVE LoopHead(_, _, _)
RECURSIVE AfterTransition(_, _)

\* From TrainPreviousSignals.set to the next await.
AfterTransition(r, c) ==
  LET c2 == CacheSet(c, Cur(r).id, CurId(r))
  IN IF Cur(r).DistanceToSignalInFront < CloseEnough
     THEN Await(r, c2, "findSignal")
     ELSE LoopHead(r, c2, r.i + 1)

\* `if (signal)` after the next-edge block.
AfterNextEdges(r, c) ==
  IF SignalKnown(r) THEN Await(r, c, "insertPrev") ELSE AfterTransition(r, c)

\* `if (prevSignal)` once prevSignal is looked up.
AfterPrevLookup(r, c) ==
  IF r.prevKnown
  THEN IF SignalKnown(r) THEN Await(r, c, "insertNext") ELSE Await(r, c, "selectNext")
  ELSE AfterNextEdges(r, c)

\* The for loop from train i: the guards, the cache lookup and the transition
\* test; the run ends (finally: running = false) after the last train.
LoopHead(r, c, i) ==
  IF i > Len(r.trains) THEN Res(IdleRun, c, FALSE)
  ELSE LET train == r.trains[i]
       IN IF Falsy(train.Latititute) \/ Falsy(train.Longitute)
          THEN LoopHead(r, c, i + 1)
          ELSE IF train.SignalInFront.id = "" /\ ~train.SignalInFront.extra
          THEN LoopHead(r, c, i + 1)
          ELSE LET got == CacheGet(c, train.id)
                   inSnapshot == got.value \in SignalIds /\ r.sigs[got.value].exists
                   r1 == [r EXCEPT !.i = i, !.prevSignalId = got.value,
                                   !.prevKnown = inSnapshot, !.rows = {},
                                   !.points = {}, !.keep = "", !.found = NoSignal]
               IN IF got.value # "" /\ got.value # train.SignalInFront.id
                  THEN IF inSnapshot THEN AfterPrevLookup(r1, got.cache)
                       ELSE Await(r1, got.cache, "findPrev")
                  ELSE AfterTransition(r1, got.cache)

Resume(res) ==
  /\ run' = res.run
  /\ cache' = res.cache
  /\ running' = res.running

NeverRunning == FALSE
\* if (running) { logger.warn(...); return; }
AlreadyRunning == running

\* An "analyze" message arrives while a run is pending: the batch is dropped.
AnalyzeDropped(trains) ==
  /\ calls < MaxCalls
  /\ AlreadyRunning
  /\ calls' = calls + 1
  /\ sev' = Did("dropped")
  /\ UNCHANGED <<signals, next_signals, prev_signals, cache, running, run>>
  /\ UNCHANGED <<fetcherVars, routeVars, imp>>

\* An "analyze" message arrives: running = true and findMany is issued.
AnalyzeAccepted(trains) ==
  /\ calls < MaxCalls
  /\ ~AlreadyRunning
  /\ calls' = calls + 1
  /\ running' = TRUE
  /\ run' = [IdleRun EXCEPT !.pc = "findMany", !.trains = trains]
  /\ sev' = NoSev
  /\ UNCHANGED <<signals, next_signals, prev_signals, cache>>
  /\ UNCHANGED <<fetcherVars, routeVars, imp>>

\* names of the findMany filter: SignalInFront.split("@")[0], falsy ones dropped
BatchNames(trains) ==
  {trains[k].SignalInFront.id : k \in 1..Len(trains)} \ {""}

\* prisma.signals.findMany resolves; the loop starts.
FindMany ==
  /\ run.pc = "findMany"
  /\ LET sigs == [n \in SignalIds |->
                    IF n \in BatchNames(run.trains) THEN signals[n] ELSE NoSignal]
     IN Resume(LoopHead([run EXCEPT !.sigs = sigs], cache, 1))
  /\ LET entry == cache[run.trains[1].id]
     IN sev' = [NoSev EXCEPT !.op = "findMany", !.id = run.trains[1].id,
                             !.keep = entry.value, !.age = entry.age]
  /\ UNCHANGED <<signals, next_signals, prev_signals, calls>>
  /\ UNCHANGED <<fetcherVars, routeVars, imp>>

\* findUnique({ where: { name: prevSignalId } }) resolves.
FindPrev ==
  /\ run.pc = "findPrev"
  /\ Resume(AfterPrevLookup(
       [run EXCEPT !.prevKnown = findUnique(run.prevSignalId).exists], cache))
  /\ sev' = NoSev
  /\ UNCHANGED <<signals, next_signals, prev_signals, calls>>
  /\ UNCHANGED <<fetcherVars, routeVars, imp>>

\* INSERT INTO next_signals (prevSignalId, signalId) ON CONFLICT DO NOTHING
InsertNext ==
  /\ run.pc = "insertNext"
  /\ next_signals' =
       InsertOnConflictDoNothing(next_signals, <<run.prevSignalId, CurId(run)>>)
  /\ run' = [run EXCEPT !.pc = "selectNext"]
  /\ sev' = [NoSev EXCEPT !.op = "insertNext", !.id = run.prevSignalId,
                          !.keep = CurId(run),
                          !.before = SelectOthers(next_signals, run.prevSignalId)]
  /\ UNCHANGED <<signals, prev_signals, cache, running, calls>>
  /\ UNCHANGED <<fetcherVars, routeVars, imp>>

NoDirectionFilter(rows, base) == rows

\* The directional filter: candidates on the same side of the reverse pattern
\* as `base`.
PossibleOthers(rows, base) ==
  {o \in rows :
     IF BLOCK_SIGNAL_REVERSE_REGEX(Chars(base))
     THEN BLOCK_SIGNAL_REVERSE_REGEX(Chars(o))
     ELSE ~BLOCK_SIGNAL_REVERSE_REGEX(Chars(o))}

\* length > 1 && BLOCK_SIGNAL_REGEX.test(prevSignalId) && BLOCK_SIGNAL_REGEX.test(signalId)
ShouldPrune(count, prevSignalId, signalId) ==
  /\ count > 1
  /\ BLOCK_SIGNAL_REGEX(Chars(prevSignalId))
  /\ BLOCK_SIGNAL_REGEX(Chars(signalId))

\* SELECT next_signal FROM next_signals WHERE signal = prevSignalId resolves.
SelectNext ==
  /\ run.pc = "selectNext"
  /\ LET rows == SelectOthers(next_signals, run.prevSignalId)
         r1 == [run EXCEPT !.rows = rows]
     IN IF /\ ShouldPrune(RowCount(next_signals, run.prevSignalId),
                          run.prevSignalId, CurId(run))
           /\ PossibleOthers(rows, run.prevSignalId) # {}
        THEN Resume(Await(r1, cache, "selectNextPoints"))
        ELSE Resume(AfterNextEdges(r1, cache))
  /\ sev' = NoSev
  /\ UNCHANGED <<signals, next_signals, prev_signals, calls>>
  /\ UNCHANGED <<fetcherVars, routeVars, imp>>

\* SELECT name, ST_X(point), ST_Y(point) FROM signals WHERE name IN (...)
SelectPoints(names) ==
  {[name |-> n, point |-> signals[n].point] :
     n \in {m \in names \cap SignalIds : signals[m].exists}}

\* The distance (squared) given to a candidate: Infinity without a record.
CandidateDistance(points, n, pos) ==
  IF \E p \in points : p.name = n
  THEN Dist2((CHOOSE p \in points : p.name = n).point, pos)
  ELSE Infinity

FarthestFirst(possible, points, pos) ==
  {n \in possible :
     \A m \in possible :
       CandidateDistance(points, n, pos) >= CandidateDistance(points, m, pos)}

\* What distances[0] may be after toSorted((a, b) => a.distance - b.distance):
\* a candidate of least distance (the sort is stable and the SELECT order is
\* not fixed, so any of several equally near candidates may come first).
SortedFirst(possible, points, pos) ==
  {n \in possible :
     \A m \in possible :
       CandidateDistance(points, n, pos) <= CandidateDistance(points, m, pos)}

\* The coordinates of the candidate next signals arrive; distances are sorted.
SelectNextPoints ==
  /\ run.pc = "selectNextPoints"
  /\ LET possible == PossibleOthers(run.rows, run.prevSignalId)
         points == SelectPoints(possible)
     IN \E k \in SortedFirst(possible, points, CurPos(run)) :
          run' = [run EXCEPT !.points = points, !.keep = k, !.pc = "deleteNext"]
  /\ sev' = NoSev
  /\ UNCHANGED <<signals, next_signals, prev_signals, cache, running, calls>>
  /\ UNCHANGED <<fetcherVars, routeVars, imp>>

\* DELETE FROM next_signals WHERE signal = prevSignalId AND next_signal != keep
DeleteNext ==
  /\ run.pc = "deleteNext"
  /\ next_signals' = DeleteOthersExcept(next_signals, run.prevSignalId, run.keep)
  /\ Resume(AfterNextEdges(run, cache))
  /\ sev' = [NoSev EXCEPT !.op = "deleteNext", !.id = run.prevSignalId,
                          !.keep = run.keep,
                          !.before = SelectOthers(next_signals, run.prevSignalId)]
  /\ UNCHANGED <<signals, prev_signals, calls>>
  /\ UNCHANGED <<fetcherVars, routeVars, imp>>

\* INSERT INTO prev_signals (signalId, prevSignalId) ON CONFLICT DO NOTHING
InsertPrev ==
  /\ run.pc = "insertPrev"
  /\ prev_signals' =
       InsertOnConflictDoNothing(prev_signals, <<CurId(run), run.prevSignalId>>)
  /\ run' = [run EXCEPT !.pc = "selectPrev"]
  /\ sev' = [NoSev EXCEPT !.op = "insertPrev", !.id = CurId(run),
                          !.keep = run.prevSignalId,
                          !.before = SelectOthers(prev_signals, CurId(run))]
  /\ UNCHANGED <<signals, next_signals, cache, running, calls>>
  /\ UNCHANGED <<fetcherVars, routeVars, imp>>

\* SELECT prev_signal FROM prev_signals WHERE signal = signalId resolves.
SelectPrev ==
  /\ run.pc = "selectPrev"
  /\ LET rows == SelectOthers(prev_signals, CurId(run))
         r1 == [run EXCEPT !.rows = rows]
     IN IF /\ ShouldPrune(RowCount(prev_signals, CurId(run)),
                          run.prevSignalId, CurId(run))
           /\ PossibleOthers(rows, CurId(run)) # {}
        THEN Resume(Await(r1, cache, "selectPrevPoints"))
        ELSE Resume(AfterTransition(r1, cache))
  /\ sev' = NoSev
  /\ UNCHANGED <<signals, next_signals, prev_signals, calls>>
  /\ UNCHANGED <<fetcherVars, routeVars, imp>>

\* The coordinates of the candidate prev signals arrive; distances are sorted.
SelectPrevPoints ==
  /\ run.pc = "selectPrevPoints"
  /\ LET possible == PossibleOthers(run.rows, CurId(run))
         points == SelectPoints(possible)
     IN \E k \in SortedFirst(possible, points, CurPos(run)) :
          run' = [run EXCEPT !.points = points, !.keep = k, !.pc = "deletePrev"]
  /\ sev' = NoSev
  /\ UNCHANGED <<signals, next_signals, prev_signals, cache, running, calls>>
  /\ UNCHANGED <<fetcherVars, routeVars, imp>>

\* DELETE FROM prev_signals WHERE signal = signalId AND prev_signal != keep
DeletePrev ==
  /\ run.pc = "deletePrev"
  /\ prev_signals' = DeleteOthersExcept(prev_signals, CurId(run), run.keep)
  /\ Resume(AfterTransition(run, cache))
  /\ sev' = [NoSev EXCEPT !.op = "deletePrev", !.id = CurId(run),
                          !.keep = run.keep,
                          !.before = SelectOthers(prev_signals, CurId(run))]
  /\ UNCHANGED <<signals, next_signals, calls>>
  /\ UNCHANGED <<fetcherVars, routeVars, imp>>

\* getSignalType(train): "" stands for null
getSignalType(train) ==
  IF train.SignalInFrontSpeed = 60 \/ train.SignalInFrontSpeed = 100 THEN "main"
  ELSE IF BLOCK_SIGNAL_REGEX(SignalInFrontChars(train.SignalInFront)) THEN "block"
  ELSE ""

\* !signal.type && (speed === 60 || speed === 100 || BLOCK_SIGNAL_REGEX.test(signalId))
ShouldSetType(signal, train) ==
  /\ signal.type = ""
  /\ \/ train.SignalInFrontSpeed = 60
     \/ train.SignalInFrontSpeed = 100
     \/ BLOCK_SIGNAL_REGEX(Chars(train.SignalInFront.id))

\* signal.accuracy > train.TrainData.DistanceToSignalInFront
IsMoreAccurate(stored, reading) == stored > reading

\* An upsert in place of the lookup: a missing record is created from the
\* observation.  The code has no such write.
FindSignalOrCreate ==
  /\ run.pc = "findSignal"
  /\ signals' = [signals EXCEPT ![CurId(run)] =
                   IF @.exists THEN @
                   ELSE [exists |-> TRUE, accuracy |-> Cur(run).DistanceToSignalInFront,
                         type |-> "", point |-> CurPos(run)]]
  /\ Resume(LoopHead(run, cache, run.i + 1))
  /\ sev' = [NoSev EXCEPT !.op = "findSignal", !.id = CurId(run)]
  /\ UNCHANGED <<next_signals, prev_signals, calls>>
  /\ UNCHANGED <<fetcherVars, routeVars, imp>>

\* findUnique({ where: { name: signalId } }) of the high-confidence branch.
FindSignal ==
  /\ run.pc = "findSignal"
  /\ LET found == findUnique(CurId(run))
         r1 == [run EXCEPT !.found = found]
     IN IF ~found.exists THEN Resume(LoopHead(r1, cache, run.i + 1))
        ELSE IF IsMoreAccurate(found.accuracy, Cur(run).DistanceToSignalInFront)
        THEN Resume(Await(r1, cache, "updateAccuracy"))
        ELSE IF ShouldSetType(found, Cur(run))
        THEN Resume(Await(r1, cache, "updateType"))
        ELSE Resume(LoopHead(r1, cache, run.i + 1))
  /\ sev' = [NoSev EXCEPT !.op = "findSignal", !.id = CurId(run)]
  /\ UNCHANGED <<signals, next_signals, prev_signals, calls>>
  /\ UNCHANGED <<fetcherVars, routeVars, imp>>

\* UPDATE signals SET accuracy = ..., point = ... WHERE name = signalId
UpdateAccuracy ==
  /\ run.pc = "updateAccuracy"
  /\ signals' = [signals EXCEPT ![CurId(run)] =
                   IF @.exists
                   THEN [@ EXCEPT !.accuracy = Cur(run).DistanceToSignalInFront,
                                  !.point = CurPos(run)]
                   ELSE @]
  /\ IF ShouldSetType(run.found, Cur(run))
     THEN Resume(Await(run, cache, "updateType"))
     ELSE Resume(LoopHead(run, cache, run.i + 1))
  /\ sev' = [NoSev EXCEPT !.op = "updateAccuracy", !.id = CurId(run)]
  /\ UNCHANGED <<next_signals, prev_signals, calls>>
  /\ UNCHANGED <<fetcherVars, routeVars, imp>>

\* UPDATE signals SET type = getSignalType(train) WHERE name = signalId
UpdateType ==
  /\ run.pc = "updateType"
  /\ signals' = [signals EXCEPT ![CurId(run)] =
                   IF @.exists THEN [@ EXCEPT !.type = getSignalType(Cur(run))] ELSE @]
  /\ Resume(LoopHead(run, cache, run.i + 1))
  /\ sev' = [NoSev EXCEPT !.op = "updateType", !.id = CurId(run)]
  /\ UNCHANGED <<next_signals, prev_signals, calls>>
  /\ UNCHANGED <<fetcherVars, routeVars, imp>>

\* An hour passes: every cache entry ages (ages past the ttl are alike).
Tick ==
  /\ \E k \in TrainIds : cache[k].has /\ ~Stale(cache[k])
  /\ cache' = [k \in TrainIds |->
                 IF cache[k].has THEN [cache[k] EXCEPT !.age = Min(@ + 1, TTL + 1)]
                 ELSE cache[k]]
  /\ sev' = NoSev
  /\ UNCHANGED <<signals, next_signals, prev_signals, running, run, calls>>
  /\ UNCHANGED <<fetcherVars, routeVars, imp>>

\* ttlAutopurge: the purge timer of a stale entry deletes it.
CachePurge ==
  /\ \E k \in TrainIds :
       /\ cache[k].has /\ Stale(cache[k])
       /\ cache' = [cache EXCEPT ![k] = NoEntry]
  /\ sev' = NoSev
  /\ UNCHANGED <<signals, next_signals, prev_signals, running, run, calls>>
  /\ UNCHANGED <<fetcherVars, routeVars, imp>>

(***************************************************************************)
(* Bulk import path: loadFileLinesToDatabase.  File 1 is data/signals.csv, *)
(* file 2 data/signals-old.csv.  The startup code calls                    *)
(* loadFileLinesToDatabase without awaiting it, so when the module has     *)
(* been evaluated every record of both files has issued its findUnique,    *)
(* both files are renamed, and the records, the two passes and the live    *)
(* path proceed in any order.                                              *)
(***************************************************************************)
MaxLines == 1        \* records of data/signals.csv explored
MaxOldLines == 1     \* records of data/signals-old.csv explored
Files == {1, 2}

\* name;lat;lon;extra;accuracy;type;prevList;nextList
Line(name, pos, acc, type, prev, next) ==
  [name |-> name, point |-> pos, accuracy |-> acc, type |-> type,
   prev |-> prev, next |-> next]

\* An import record: its line, where it stands and the row findUnique gave it.
\* short: the line ends before its two edge lists, so prevSignalsStr is
\* undefined and prevSignalsStr.split throws.
Rec(f, line) ==
  [file |-> f, line |-> line, pc |-> "find", signal |-> NoSignal, short |-> FALSE]

NoImport ==
  [recs |-> <<>>,
   toAdd |-> [f \in Files |-> <<>>],
   queue |-> [f \in Files |-> <<>>],
   phase |-> [f \in Files |-> "absent"],
   renamed |-> [f \in Files |-> FALSE]]

Settled(rec) == rec.pc \in {"fulfilled", "rejected"}
RecsOf(recs, f) == {k \in 1..Len(recs) : recs[k].file = f}

\* prevNextToBeAdded.set(name, { prev, next }): a Map keeps the place of a
\* key it already holds.
MapSet(entries, line) ==
  LET e == [name |-> line.name, prev |-> line.prev, next |-> line.next]
  IN IF \E i \in 1..Len(entries) : entries[i].name = line.name
     THEN [i \in 1..Len(entries) |->
             IF entries[i].name = line.name THEN e ELSE entries[i]]
     ELSE Append(entries, e)

\* The inserts of the edge pass, in the order of its loops.
RECURSIVE RowsOf(_, _, _)
RowsOf(table, name, others) ==
  IF others = <<>> THEN <<>>
  ELSE <<[table |-> table, row |-> <<name, Head(others)>>]>>
         \o RowsOf(table, name, Tail(others))

RECURSIVE EdgeOps(_)
EdgeOps(entries) ==
  IF entries = <<>> THEN <<>>
  ELSE RowsOf("prev", Head(entries).name, Head(entries).prev)
         \o RowsOf("next", Head(entries).name, Head(entries).next)
         \o EdgeOps(Tail(entries))

\* Record k settles with `pc`; when it is the last of its file,
\* Promise.allSettled resolves and the edge pass issues its first insert.
Settle(k, pc, setEntry) ==
  LET f == imp.recs[k].file
      recs == [imp.recs EXCEPT ![k].pc = pc]
      entries == IF setEntry THEN MapSet(imp.toAdd[f], imp.recs[k].line)
                 ELSE imp.toAdd[f]
      all == \A j \in RecsOf(recs, f) : Settled(recs[j])
  IN [imp EXCEPT !.recs = recs,
                 !.toAdd[f] = entries,
                 !.queue[f] = IF all THEN EdgeOps(entries) ELSE @,
                 !.phase[f] = IF ~all THEN @
                              ELSE IF EdgeOps(entries) = <<>> THEN "done"
                              ELSE "edges"]

\* The end of a record's callback, prevNextToBeAdded.set(name, { prev:
\* prevSignalsStr.split(","), ... }): the entry is set and the promise is
\* fulfilled, or split throws and the promise is rejected.
SetEntry(k) ==
  IF imp.recs[k].short THEN Settle(k, "rejected", FALSE)
  ELSE Settle(k, "fulfilled", TRUE)

\* signal.accuracy > accuracy
ImportIsMoreAccurate(stored, accuracy) == stored > accuracy

\* !signal.type && type
ImportShouldSetType(signal, type) == signal.type = "" /\ type # ""

\* findUnique({ where: { name } }) of record k resolves.
RecFind(k) ==
  /\ imp.recs[k].pc = "find"
  /\ LET line == imp.recs[k].line
         signal == findUnique(line.name)
         recs == [imp.recs EXCEPT ![k].signal = signal]
         at(pc) == [imp EXCEPT !.recs = [recs EXCEPT ![k].pc = pc]]
     IN IF ~signal.exists THEN imp' = at("insert")
        ELSE IF ImportIsMoreAccurate(signal.accuracy, line.accuracy)
        THEN imp' = at("updateAccuracy")
        ELSE IF ImportShouldSetType(signal, line.type)
        THEN imp' = at("updateType")
        ELSE imp' = [SetEntry(k) EXCEPT !.recs[k].signal = signal]
  /\ sev' = NoSev
  /\ UNCHANGED <<signals, next_signals, prev_signals, cache, running, run, calls>>
  /\ UNCHANGED <<fetcherVars, routeVars>>

\* INSERT INTO signals (name, point, extra, accuracy, type): the name is the
\* table's unique key, so a second insert of a name is rejected.
RecInsert(k) ==
  /\ imp.recs[k].pc = "insert"
  /\ LET line == imp.recs[k].line
     IN IF signals[line.name].exists
        THEN /\ imp' = Settle(k, "rejected", FALSE)
             /\ UNCHANGED signals
        ELSE /\ signals' = [signals EXCEPT ![line.name] =
                              [exists |-> TRUE, accuracy |-> line.accuracy,
                               type |-> line.type, point |-> line.point]]
             /\ imp' = SetEntry(k)
  /\ sev' = [NoSev EXCEPT !.op = "recInsert", !.id = imp.recs[k].line.name]
  /\ UNCHANGED <<next_signals, prev_signals, cache, running, run, calls>>
  /\ UNCHANGED <<fetcherVars, routeVars>>

\* UPDATE signals SET point = ..., accuracy = ... WHERE name = ...
RecUpdateAccuracy(k) ==
  /\ imp.recs[k].pc = "updateAccuracy"
  /\ LET line == imp.recs[k].line
     IN /\ signals' = [signals EXCEPT ![line.name] =
                         IF @.exists
                         THEN [@ EXCEPT !.accuracy = line.accuracy, !.point = line.point]
                         ELSE @]
        /\ IF ImportShouldSetType(imp.recs[k].signal, line.type)
           THEN imp' = [imp EXCEPT !.recs[k].pc = "updateType"]
           ELSE imp' = SetEntry(k)
  /\ sev' = [NoSev EXCEPT !.op = "recUpdateAccuracy", !.id = imp.recs[k].line.name]
  /\ UNCHANGED <<next_signals, prev_signals, cache, running, run, calls>>
  /\ UNCHANGED <<fetcherVars, routeVars>>

\* UPDATE signals SET type = ... WHERE name = ...
RecUpdateType(k) ==
  /\ imp.recs[k].pc = "updateType"
  /\ LET line == imp.recs[k].line
     IN signals' = [signals EXCEPT ![line.name] =
                      IF @.exists THEN [@ EXCEPT !.type = line.type] ELSE @]
  /\ imp' = SetEntry(k)
  /\ sev' = [NoSev EXCEPT !.op = "recUpdateType", !.id = imp.recs[k].line.name]
  /\ UNCHANGED <<next_signals, prev_signals, cache, running, run, calls>>
  /\ UNCHANGED <<fetcherVars, routeVars>>

\* A plain INSERT into an edge table inside try/catch: a row that is already
\* there violates the key, the error is logged and the loop goes on.
InsertOrCatch(t, row) == IF UniqueViolation(t, row) THEN t ELSE AddRow(t, row)

\* The pending INSERT of file f's edge pass completes; the next is issued.
EdgeInsert(f) ==
  /\ imp.phase[f] = "edges"
  /\ LET op == Head(imp.queue[f])
     IN /\ IF op.table = "prev"
           THEN /\ prev_signals' = InsertOrCatch(prev_signals, op.row)
                /\ UNCHANGED next_signals
           ELSE /\ next_signals' = InsertOrCatch(next_signals, op.row)
                /\ UNCHANGED prev_signals
        /\ sev' = [NoSev EXCEPT !.op = IF op.table = "prev" THEN "edgeInsertPrev"
                                        ELSE "edgeInsertNext",
                                !.id = op.row[1],
                                !.keep = op.row[2],
                                !.before = SelectOthers(
                                  IF op.table = "prev" THEN prev_signals
                                  ELSE next_signals, op.row[1])]
  /\ imp' = [imp EXCEPT !.queue[f] = Tail(@),
                        !.phase[f] = IF Tail(imp.queue[f]) = <<>> THEN "done" ELSE @]
  /\ UNCHANGED <<signals, cache, running, run, calls>>
  /\ UNCHANGED <<fetcherVars, routeVars>>

\* The database call record k awaits rejects: its promise is rejected and
\* Promise.allSettled keeps the reason; no other record is touched.
RecFail(k) ==
  /\ imp.recs[k].pc \in {"find", "insert", "updateAccuracy", "updateType"}
  /\ imp' = Settle(k, "rejected", FALSE)
  /\ sev' = [NoSev EXCEPT !.op = "recFail", !.id = imp.recs[k].line.name]
  /\ UNCHANGED <<signals, next_signals, prev_signals, cache, running, run, calls>>
  /\ UNCHANGED <<fetcherVars, routeVars>>

\* A rejected edge INSERT that nothing catches: the call ends there.
EdgeFailUncaught(f) ==
  /\ imp.phase[f] = "edges"
  /\ imp' = [imp EXCEPT !.queue[f] = <<>>, !.phase[f] = "thrown"]
  /\ sev' = [NoSev EXCEPT !.op = "edgeFail"]
  /\ UNCHANGED <<signals, next_signals, prev_signals, cache, running, run, calls>>
  /\ UNCHANGED <<fetcherVars, routeVars>>

\* The pending INSERT of file f's edge pass rejects for a reason other than
\* the key: the catch around it logs and the loop issues the next one.
EdgeFail(f) ==
  /\ imp.phase[f] = "edges"
  /\ imp' = [imp EXCEPT !.queue[f] = Tail(@),
                        !.phase[f] = IF Tail(imp.queue[f]) = <<>> THEN "done" ELSE @]
  /\ sev' = [NoSev EXCEPT !.op = "edgeFail"]
  /\ UNCHANGED <<signals, next_signals, prev_signals, cache, running, run, calls>>
  /\ UNCHANGED <<fetcherVars, routeVars>>

ImportStep ==
  \/ \E k \in 1..Len(imp.recs) : RecFind(k)
  \/ \E k \in 1..Len(imp.recs) : RecInsert(k)
  \/ \E k \in 1..Len(imp.recs) : RecUpdateAccuracy(k)
  \/ \E k \in 1..Len(imp.recs) : RecUpdateType(k)
  \/ \E f \in Files : EdgeInsert(f)

(***************************************************************************)
(* Inputs and initial states of the signal worker.                         *)
(***************************************************************************)
Obs(id, sig, extra, pos, dist, speed) ==
  [id |-> id, SignalInFront |-> [id |-> sig, extra |-> extra],
   Latititute |-> pos[1], Longitute |-> pos[2],
   DistanceToSignalInFront |-> dist, SignalInFrontSpeed |-> speed]

\* Telemetry the live path is fed: a train approaching A1_1, then A1_2 or
\* A1_2A from two positions, far from the signal (7) or close to it (2).
LiveObservations ==
  { Obs("t1", "A1_1", FALSE, <<1, 1>>, 7, 40),
    Obs("t1", "A1_2", FALSE, <<3, 1>>, 7, 40),
    Obs("t1", "A1_2", FALSE, <<4, 1>>, 2, 100),
    Obs("t1", "A1_2A", TRUE, <<4, 1>>, 2, 40),
    Obs("t2", "A1_2A", FALSE, <<5, 1>>, 7, 40),
    Obs("t2", "A1_1", FALSE, <<0, 1>>, 7, 40) }

\* A batch holds a train at most once.
DistinctTrains(b) == \A i, j \in 1..Len(b) : i < j => b[i].id # b[j].id

LiveBatches ==
  {b \in UNION {[1..n -> LiveObservations] : n \in 1..MaxTrains} : DistinctTrains(b)}

Sig(acc, type, pos) == [exists |-> TRUE, accuracy |-> acc, type |-> type, point |-> pos]

\* The signals table the live path starts from.
LiveSignals ==
  [n \in SignalIds |->
     CASE n = "A1_1" -> Sig(8, "", <<1, 1>>)
       [] n = "A1_2" -> Sig(8, "", <<2, 1>>)
       [] n = "A1_2A" -> Sig(1, "", <<4, 1>>)
       [] n = "A1_3A" -> Sig(8, "block", <<5, 1>>)
       [] OTHER -> Sig(8, "main", <<3, 1>>)]

Table(rows) == [row \in EdgeRows |-> IF row \in rows THEN 1 ELSE 0]

\* Edge tables left by earlier runs and imports.
LiveNextTables ==
  { Table({}),
    Table({<<"A1_1", "A1_2">>, <<"A1_1", "A1_2A">>, <<"A1_1", "">>,
           <<"A1_2A", "A1_3A">>, <<"A1_2A", "A1_2">>}),
    Table({<<"A1_1", "A1_2A">>, <<"A1_1", "Sp_A">>,
           <<"A1_2A", "A1_2">>, <<"A1_2A", "Sp_A">>}) }
LivePrevTables ==
  { Table({}),
    Table({<<"A1_2", "A1_2A">>, <<"A1_2", "Sp_A">>, <<"A1_2A", "A1_3A">>}) }

SignalIdle ==
  /\ signals = NoSigs
  /\ next_signals = EmptyTable
  /\ prev_signals = EmptyTable
  /\ cache = [k \in TrainIds |-> NoEntry]
  /\ running = FALSE
  /\ run = IdleRun
  /\ calls = 0
  /\ imp = NoImport
  /\ sev = NoSev

\* The same table before A1_2 was ever imported.
LiveSignalTables == {LiveSignals, [LiveSignals EXCEPT !["A1_2"] = NoSignal]}

\* Edge rows are written for a signal only once its record is stored (the
\* import queues the edges of a record after its INSERT or its findUnique
\* succeeded, the live path inserts them for found records) and records are
\* never deleted: every row's first column names a stored signal.
EdgesOfStoredSignals(sigs, t) ==
  \A row \in EdgeRows : t[row] > 0 => sigs[row[1]].exists

\* Startup with no data/signals.csv: statSync throws, nothing is imported.
LiveInit ==
  /\ signals \in LiveSignalTables
  /\ next_signals \in LiveNextTables
  /\ prev_signals \in LivePrevTables
  /\ EdgesOfStoredSignals(signals, next_signals)
  /\ EdgesOfStoredSignals(signals, prev_signals)
  /\ cache = [k \in TrainIds |-> NoEntry]
  /\ running = FALSE
  /\ run = IdleRun
  /\ calls = 0
  /\ imp = NoImport
  /\ sev = NoSev

LiveStep ==
  \/ FindMany \/ FindPrev
  \/ InsertNext \/ SelectNext \/ SelectNextPoints \/ DeleteNext
  \/ InsertPrev \/ SelectPrev \/ SelectPrevPoints \/ DeletePrev
  \/ FindSignal \/ UpdateAccuracy \/ UpdateType

LiveNext ==
  \/ \E trains \in LiveBatches : AnalyzeAccepted(trains)
  \/ \E trains \in LiveBatches : AnalyzeDropped(trains)
  \/ LiveStep
  \/ Tick
  \/ CachePurge

(***************************************************************************)
(* The live path with database calls that can reject.                      *)
(***************************************************************************)
MaxFailTrains == 2   \* trains per batch when calls can reject

FailBatches ==
  {b \in UNION {[1..n -> LiveObservations] : n \in 1..MaxFailTrains} :
     DistinctTrains(b)}

\* The two INSERTs sit in a try/catch of their own: the rejection is swallowed
\* and the code goes on to the SELECT that follows.
CaughtInPlace(pc) == pc \in {"insertNext", "insertPrev"}
AfterCaught(pc) == IF pc = "insertNext" THEN "selectNext" ELSE "selectPrev"

\* A rejection that ends the run with the guard still set (no finally).
DbFailKeepsGuard ==
  /\ run.pc # "idle"
  /\ IF CaughtInPlace(run.pc)
     THEN Resume(Await(run, cache, AfterCaught(run.pc)))
     ELSE Resume(Res(IdleRun, cache, TRUE))
  /\ sev' = [NoSev EXCEPT !.op = "dbFail", !.id = run.pc]
  /\ UNCHANGED <<signals, next_signals, prev_signals, calls>>
  /\ UNCHANGED <<fetcherVars, routeVars, imp>>

\* The awaited database call rejects.  Every other call is covered only by the
\* try of the whole function: its catch logs, finally sets running = false and
\* the function returns.
DbFail ==
  /\ run.pc # "idle"
  /\ IF CaughtInPlace(run.pc)
     THEN Resume(Await(run, cache, AfterCaught(run.pc)))
     ELSE Resume(Res(IdleRun, cache, FALSE))
  /\ sev' = [NoSev EXCEPT !.op = "dbFail", !.id = run.pc]
  /\ UNCHANGED <<signals, next_signals, prev_signals, calls>>
  /\ UNCHANGED <<fetcherVars, routeVars, imp>>

LiveFailNext ==
  \/ \E trains \in FailBatches : AnalyzeAccepted(trains)
  \/ \E trains \in FailBatches : AnalyzeDropped(trains)
  \/ LiveStep
  \/ DbFail

\* The database call a run awaits settles: it resolves or it rejects.
CallSettles == LiveStep \/ DbFail

\* Records the import files may hold: two readings of the known signal A1_1
\* (in data/signals.csv and in data/signals-old.csv) and a signal the table
\* does not hold yet.
NewLines ==
  { Line("A1_1", <<1, 2>>, 1, "main", <<"">>, <<"A1_2">>),
    Line("A1_2A", <<4, 1>>, 2, "", <<"A1_2">>, <<"">>) }
OldLines ==
  { Line("A1_1", <<1, 3>>, 2, "block", <<"">>, <<"A1_2">>) }

LinesUpTo(lines, lo, hi) == UNION {[1..n -> lines] : n \in lo..hi}

RECURSIVE RecsFrom(_, _)
RecsFrom(f, lines) ==
  IF lines = <<>> THEN <<>> ELSE <<Rec(f, Head(lines))>> \o RecsFrom(f, Tail(lines))

\* Telemetry fed to the live path while the import runs: a train close to
\* A1_1, then on its way to A1_2.
ImportObservations ==
  { Obs("t1", "A1_1", FALSE, <<1, 1>>, 2, 40),
    Obs("t1", "A1_2", FALSE, <<2, 1>>, 7, 40) }

ImportBatches ==
  {b \in UNION {[1..n -> ImportObservations] : n \in 1..MaxTrains} : DistinctTrains(b)}

ImportSignals ==
  [n \in SignalIds |->
     CASE n = "A1_1" -> Sig(3, "", <<1, 1>>)
       [] n = "A1_2" -> Sig(3, "", <<2, 1>>)
       [] OTHER -> NoSignal]

\* Startup with data/signals.csv (lines1) and, when lines2 is not empty,
\* data/signals-old.csv: the state once the module has been evaluated.
ImportInit ==
  /\ signals = ImportSignals
  /\ next_signals = Table({<<"A1_1", "A1_2A">>})
  /\ prev_signals = Table({<<"A1_2", "A1_2A">>})
  /\ cache = [k \in TrainIds |-> NoEntry]
  /\ running = FALSE
  /\ run = IdleRun
  /\ calls = 0
  /\ sev = NoSev
  /\ \E lines1 \in LinesUpTo(NewLines, 1, MaxLines),
        lines2 \in LinesUpTo(OldLines, 0, MaxOldLines) :
       imp = [recs |-> RecsFrom(1, lines1) \o RecsFrom(2, lines2),
              toAdd |-> [f \in Files |-> <<>>],
              queue |-> [f \in Files |-> <<>>],
              phase |-> [f \in Files |->
                           IF f = 1 \/ lines2 # <<>> THEN "records" ELSE "absent"],
              renamed |-> [f \in Files |-> f = 1 \/ lines2 # <<>>]]

(***************************************************************************)
(* The import alone, with database calls that can reject and lines that    *)
(* can be short.                                                           *)
(***************************************************************************)
MaxFailLines == 2    \* records of data/signals.csv when calls can reject

RECURSIVE ShortAt(_, _)
ShortAt(recs, ks) ==
  IF ks = {} THEN recs
  ELSE LET k == CHOOSE x \in ks : TRUE
       IN ShortAt([recs EXCEPT ![k].short = TRUE], ks \ {k})

ImportFailInit ==
  /\ signals = ImportSignals
  /\ next_signals = Table({<<"A1_1", "A1_2A">>})
  /\ prev_signals = Table({<<"A1_2", "A1_2A">>})
  /\ cache = [k \in TrainIds |-> NoEntry]
  /\ running = FALSE
  /\ run = IdleRun
  /\ calls = 0
  /\ sev = NoSev
  /\ \E lines1 \in LinesUpTo(NewLines, 1, MaxFailLines) :
       \E ks \in SUBSET (1..Len(lines1)) :
         imp = [recs |-> ShortAt(RecsFrom(1, lines1), ks),
                toAdd |-> [f \in Files |-> <<>>],
                queue |-> [f \in Files |-> <<>>],
                phase |-> [f \in Files |-> IF f = 1 THEN "records" ELSE "absent"],
                renamed |-> [f \in Files |-> f = 1]]

ImportFailNext ==
  \/ ImportStep
  \/ \E k \in 1..Len(imp.recs) : RecFail(k)
  \/ \E f \in Files : EdgeFail(f)

\* The import and the live path side by side.
ImportNext ==
  \/ ImportStep
  \/ \E trains \in ImportBatches : AnalyzeAccepted(trains)
  \/ \E trains \in ImportBatches : AnalyzeDropped(trains)
  \/ LiveStep

(***************************************************************************)
(* Claims about the Route-Geometry engine (SpecRoutes).                    *)
(***************************************************************************)
\* C3: every point appended by analyzeTrainsForRoutes (one beyond those
\* present at initial load) is strictly farther than MIN_DISTANCE from every
\* point its route held when it was appended (appends go to the end, so those
\* are the points before it); hence no observation within the threshold of an
\* existing point is ever appended, and two points of a route are either
\* farther apart than the threshold or were both loaded at startup.
C3_MinimumSeparation ==
  \A r \in Routes :
    \A i, j \in 1..Len(RoutePoints[r]) :
      (i < j /\ j > loaded[r]) =>
        Dist2(RoutePoints[r][i], RoutePoints[r][j]) > MIN_DISTANCE * MIN_DISTANCE

\* The scenario of the claim: route 501 holds <<1,1>>, the batch's observation
\* <<6,6>> was discarded and <<31,1>> was added.
C3_Witness ==
  /\ RoutePoints["501"] = << <<1, 1>>, <<31, 1>> >>
  /\ loaded["501"] = 1
  /\ rev.added = 1 /\ rev.discarded = 1

(***************************************************************************)
(* Claims about the Periodic Fetch Scheduler (SpecFetcher).                *)
(***************************************************************************)
CycleSettled == fev.op \in {"resolve", "reject"}

\* C7: after every fetch cycle, resolved or rejected, the timer armed for the
\* next fetch has delay max(0, interval - elapsed), elapsed being the duration
\* of the cycle that just ended.
C7_DelayIsIntervalMinusElapsed ==
  CycleSettled =>
    \E t \in timers :
      t.id = timeoutHandle /\ t.delay = Max(0, refreshInterval - fev.elapsed)

\* C8: at most one fetchData call is in flight, at most one timer is pending,
\* and a timer is pending only while no fetch is in flight.
C8_NoOverlappingFetches == inFlight + Cardinality(timers) <= 1

\* C9: every settled fetch cycle is eventually followed by another fetch
\* attempt, a rejected fetch leaves the published value unchanged, and after
\* a rejection a timer for the next attempt is armed.
C9_SelfHealingLoop ==
  /\ CycleSettled ~> (fev.op = "fetch")
  /\ [][(fev'.op = "reject" /\ inFlight' < inFlight) => data' = data]_vars
  /\ [](fev.op = "reject" => \E t \in timers : t.id = timeoutHandle)

\* A fetch attempt that follows a rejected cycle, the last value still published.
C9_Witness == fev.op = "fetch" /\ fev.prev = "reject" /\ data \in Values

(***************************************************************************)
(* Claims about the Signal-Topology Inference Engine.                      *)
(***************************************************************************)

\* C1: every write to a signal's stored accuracy, by an import record or by
\* the live path, leaves it less than or equal to the value stored
\* immediately before the write.
C1_AccuracyNeverIncreases ==
  [][\A n \in SignalIds :
       signals[n].exists => signals'[n].accuracy <= signals[n].accuracy]_vars

\* C2: an "analyze" message that arrives while a run is pending changes no
\* table, not the cache, not the pending run and not the guard; a run starts
\* only with the message that carries its batch (a dropped batch is not run
\* later), and the guard is set exactly while a run is pending.
C2_SingleFlight ==
  /\ [][(calls' # calls /\ running) =>
          UNCHANGED <<signals, next_signals, prev_signals, cache, running, run>>]_vars
  /\ [][(run.pc = "idle" /\ run'.pc # "idle") => calls' # calls]_vars
  /\ [](running <=> run.pc # "idle")

\* A batch was dropped while the first run waits for its UPDATE of a signal,
\* its own batch still the one being processed.
C2_Witness ==
  /\ sev.op = "dropped"
  /\ running
  /\ run.pc \in {"updateAccuracy", "updateType"}
  /\ run.trains # <<>>

\* The vehicle went from a known previous signal to the current one, both ids
\* are block signals, the previous signal has more than one next edge when
\* they are re-read, and c is its one direction-consistent candidate strictly
\* nearest to the vehicle.
C4_Case(c) ==
  LET rows == SelectOthers(next_signals, run.prevSignalId)
      possible == PossibleOthers(rows, run.prevSignalId)
      dist(n) == CandidateDistance(SelectPoints(possible), n, CurPos(run))
  IN /\ run.prevKnown
     /\ BLOCK_SIGNAL_REGEX(Chars(run.prevSignalId))
     /\ BLOCK_SIGNAL_REGEX(Chars(CurId(run)))
     /\ RowCount(next_signals, run.prevSignalId) > 1
     /\ c \in possible
     /\ \A m \in possible \ {c} : dist(c) < dist(m)

\* C4: in that case the step of the run that re-reads the next edges leads to
\* the deletion, the deletion keeps c, and once it is done the previous signal has exactly one
\* next edge, the edge to c; no later step of the observation touches the
\* next edges.
C4_AmbiguityPruning ==
  /\ [][\A c \in EdgeNames :
          (run.pc = "selectNext" /\ run' # run /\ C4_Case(c)) => run'.pc = "selectNextPoints"]_vars
  /\ [][\A c \in EdgeNames :
          (run.pc = "selectNextPoints" /\ run' # run /\ C4_Case(c)) =>
            (run'.pc = "deleteNext" /\ run'.keep = c)]_vars
  /\ [][\A c \in EdgeNames :
          (run.pc = "deleteNext" /\ run' # run /\ C4_Case(c)) =>
            /\ SelectOthers(next_signals', run.prevSignalId) = {c}
            /\ RowCount(next_signals', run.prevSignalId) = 1]_vars
  /\ [][next_signals' # next_signals => run.pc \in {"insertNext", "deleteNext"}]_vars

\* A1_1 had the next edges A1_2, A1_2A and one to a signal without a record;
\* the vehicle reached A1_2 and only the edge to A1_2 is left.
C4_Witness ==
  /\ sev.op = "deleteNext"
  /\ sev.id = "A1_1"
  /\ sev.before = {"A1_2", "A1_2A", ""}
  /\ sev.keep = "A1_2"
  /\ SelectOthers(next_signals, "A1_1") = {"A1_2"}
  /\ RowCount(next_signals, "A1_1") = 1

EndsInUppercase(id) ==
  Chars(id) # <<>> /\ Chars(id)[Len(Chars(id))] \in UpperChars

\* C5 as stated: the edge kept by the pruning ends in an uppercase letter
\* exactly when the previous signal's id does.
C5_KeptEdgeSharesLetterSuffix ==
  sev.op = "deleteNext" => (EndsInUppercase(sev.id) <=> EndsInUppercase(sev.keep))

\* C5: the edge kept by the pruning is one of the previous signal's edges and
\* matches the stricter direction pattern (letter, digits, underscore, digits,
\* uppercase letter) exactly when the previous signal's id does, whatever the
\* distances; when no candidate passes that filter nothing is deleted; and an
\* edge is only ever deleted by a pruning that keeps a candidate that passed.
C5_DirectionalFilter ==
  /\ [](sev.op = "deleteNext" =>
          /\ sev.keep \in sev.before
          /\ BLOCK_SIGNAL_REVERSE_REGEX(Chars(sev.id))
               <=> BLOCK_SIGNAL_REVERSE_REGEX(Chars(sev.keep)))
  /\ [][(/\ run.pc = "selectNext"
         /\ PossibleOthers(SelectOthers(next_signals, run.prevSignalId),
                           run.prevSignalId) = {}) =>
          (run'.pc \notin {"selectNextPoints", "deleteNext"}
             /\ next_signals' = next_signals)]_vars
  /\ [][(\E row \in EdgeRows : next_signals'[row] < next_signals[row]) =>
          /\ run.pc = "deleteNext"
          /\ run.keep \in PossibleOthers(
               SelectOthers(next_signals, run.prevSignalId), run.prevSignalId)]_vars

\* The vehicle stands where A1_2A is, two units from A1_2; of A1_1's next
\* edges the one to A1_2 is kept.
C5_Witness ==
  /\ sev.op = "deleteNext"
  /\ sev.id = "A1_1"
  /\ "A1_2A" \in sev.before
  /\ sev.keep = "A1_2"
  /\ run.pc = "insertPrev"
  /\ CurPos(run) = signals["A1_2A"].point
  /\ CurPos(run) # signals["A1_2"].point

NoDuplicateEdge ==
  \A row \in EdgeRows : next_signals[row] <= 1 /\ prev_signals[row] <= 1

\* C6: no state holds an edge twice, and an insert of an edge that is already
\* there, by the live path or by the import's edge pass, changes no table.
C6_EdgeDedup ==
  /\ []NoDuplicateEdge
  /\ [][(/\ sev'.op \in {"insertNext", "insertPrev", "edgeInsertNext", "edgeInsertPrev"}
         /\ sev'.keep \in sev'.before) =>
          UNCHANGED <<signals, next_signals, prev_signals>>]_vars

\* With data/signals.csv alone: the live path had inserted the edge from A1_1
\* to A1_2 when the import's edge pass inserted it again.
C6_Witness ==
  /\ sev.op = "edgeInsertNext"
  /\ sev.id = "A1_1" /\ sev.keep = "A1_2"
  /\ "A1_2" \in sev.before
  /\ imp.phase[2] = "absent"
  /\ next_signals[<<"A1_1", "A1_2">>] = 1

TransitionPcs ==
  {"findPrev", "insertNext", "selectNext", "selectNextPoints", "deleteNext",
   "insertPrev", "selectPrev", "selectPrevPoints", "deletePrev"}

\* The first train of the batch is the one being processed, right after its
\* cache lookup.
FirstLookup == sev.op = "findMany" /\ run.i = 1

\* C10: an entry read before its ttl has elapsed has a full ttl ahead of it
\* again and gives the previous signal; an entry written has a full ttl ahead
\* of it; an entry older than the ttl gives no previous signal, so the
\* observation is not a transition; and no entry goes away before its ttl
\* has elapsed.
C10_SlidingExpiry ==
  /\ []((FirstLookup /\ sev.keep # "" /\ sev.age <= TTL /\ run.pc \in TransitionPcs) =>
          /\ run.prevSignalId = sev.keep
          /\ cache[sev.id] = [has |-> TRUE, value |-> sev.keep, age |-> 0])
  /\ []((FirstLookup /\ run.pc = "findSignal") =>
          cache[sev.id] = [has |-> TRUE, value |-> CurId(run), age |-> 0])
  /\ []((FirstLookup /\ sev.age > TTL) =>
          (run.prevSignalId = "" /\ run.pc \notin TransitionPcs))
  /\ [][\A k \in TrainIds :
          (cache[k].has /\ ~Stale(cache[k])) => cache'[k].has]_vars

\* An entry read exactly one ttl after its last access, with a full ttl ahead
\* of it again.
C10_Witness ==
  /\ FirstLookup
  /\ sev.keep # "" /\ sev.age = TTL
  /\ run.pc \in TransitionPcs
  /\ cache[sev.id].has /\ cache[sev.id].age = 0

\* An entry older than the ttl was looked up and gave no previous signal.
C10_ExpiredLookup ==
  FirstLookup /\ sev.keep # "" /\ sev.age > TTL /\ run.prevSignalId = ""

\* The classification the claim gives an observation: main for an enforced
\* speed of 60 or 100, else block for a block-signal id, else none.
ClaimedType(train) ==
  IF train.SignalInFrontSpeed = 60 \/ train.SignalInFrontSpeed = 100 THEN "main"
  ELSE IF BLOCK_SIGNAL_REGEX(Chars(train.SignalInFront.id)) THEN "block"
  ELSE ""

\* C11: an observation closer than 5 to a stored signal without a
\* classification, for which the claim gives one, leads to a write of the
\* classification; that write stores the claimed classification; and no other
\* step changes a classification.
C11_LiveClassification ==
  /\ [][(/\ run.pc = "findSignal" /\ run' # run
         /\ findUnique(CurId(run)).exists
         /\ findUnique(CurId(run)).type = ""
         /\ ClaimedType(Cur(run)) # "") =>
          (run'.pc \in {"updateAccuracy", "updateType"} /\ run'.i = run.i)]_vars
  /\ [][(run.pc = "updateType" /\ run' # run) =>
          signals'[CurId(run)].type = ClaimedType(Cur(run))]_vars
  /\ [][\A n \in SignalIds :
          signals'[n].type # signals[n].type =>
            (run.pc = "updateType" /\ n = CurId(run))]_vars

\* C12: no step of the live path changes which signal names are stored, and
\* the lookup of an unknown signal closer than 5 changes no table.
C12_NoRecordCreated ==
  /\ [][\A n \in SignalIds : signals'[n].exists = signals[n].exists]_vars
  /\ [][(run.pc = "findSignal" /\ run' # run /\ ~findUnique(CurId(run)).exists) =>
          UNCHANGED <<signals, next_signals, prev_signals>>]_vars

\* The lookup of the high-confidence branch found no record for A1_2, and
\* there still is none.
C12_Witness ==
  /\ sev.op = "findSignal"
  /\ sev.id = "A1_2"
  /\ ~signals["A1_2"].exists

\* C15: a batch flushes exactly when it is the 11th, 22nd, 33rd, ... since
\* startup; never more than 10 batches have been handled since the last
\* flush; and after a flush the file of every route in memory holds exactly
\* the points in memory for it.
C15_FlushCadence ==
  /\ [][rev'.flushed <=> rev'.n = 0]_vars
  /\ [](rev.since <= 10)
  /\ [](rev.flushed =>
         \A r \in Routes : RoutePoints[r] # <<>> => routeFiles[r] = RoutePoints[r])

\* The 11th batch has been handled and flushed a route that had gained points
\* since it was loaded.
C15_Witness ==
  /\ rev.flushed
  /\ rev.n = 0
  /\ Len(RoutePoints["501"]) > loaded["501"]
  /\ loaded["501"] > 0
  /\ routeFiles["501"] = RoutePoints["501"]

\* An observation carries a coordinate when the field holds a number.
CarriesCoordinates(train) == train.Latititute \in Int /\ train.Longitute \in Int

RECURSIVE TotalPoints(_, _)
TotalPoints(rp, rs) ==
  IF rs = {} THEN 0
  ELSE LET r == CHOOSE x \in rs : TRUE
       IN Len(rp[r]) + TotalPoints(rp, rs \ {r})

\* C16: whatever the points held, for every batch the counters of the loop
\* add up to the number of observations carrying both coordinates, and the
\* number of stored points grows by exactly the added count.
C16_BatchAccounting ==
  \A trains \in RouteBatches :
    LET st == RouteLoop(trains, 1, [rp |-> RoutePoints, added |-> 0, discarded |-> 0])
    IN /\ st.added + st.discarded =
            Cardinality({k \in 1..Len(trains) : CarriesCoordinates(trains[k])})
       /\ TotalPoints(st.rp, Routes) = TotalPoints(RoutePoints, Routes) + st.added

\* C14: a write of a route file that fails during saveRoutes does not stop
\* the route engine: in every reachable state the engine is running and takes
\* the next batch.
C14_FlushFailureNonFatal == routeAlive

\* The loop reaches a train's TrainPreviousSignals.set unless it skips the
\* train for a missing position or a missing SignalInFront.
Skipped(train) ==
  \/ Falsy(train.Latititute) \/ Falsy(train.Longitute)
  \/ (train.SignalInFront.id = "" /\ ~train.SignalInFront.extra)

Recorded(c, train) ==
  c[train.id] = [has |-> TRUE, value |-> train.SignalInFront.id, age |-> 0]

\* C13: when a database call made for one observation of a batch rejects
\* while observations of the batch are still to come, the run goes on: it
\* stays pending, or it has processed the next observation (recorded its
\* signal for the train).
C13_FailureIsolation ==
  [][(/\ sev'.op = "dbFail"
      /\ run.i >= 1
      /\ run.i < Len(run.trains)
      /\ ~Skipped(run.trains[run.i + 1])) =>
       (run'.pc # "idle" \/ Recorded(cache', run.trains[run.i + 1]))]_vars

\* C17: an import file is renamed only once the pass over it has completed
\* successfully: all its records are settled, none rejected, and its queued
\* edge inserts are done.
C17_RenameAfterPass ==
  \A f \in Files :
    imp.renamed[f] =>
      /\ imp.phase[f] = "done"
      /\ \A k \in RecsOf(imp.recs, f) : imp.recs[k].pc = "fulfilled"

Pending(rec) == rec.pc \in {"find", "insert", "updateAccuracy", "updateType"}

\* C18: within one call of loadFileLinesToDatabase, a record whose database
\* call rejects, or whose line is short, is rejected alone: the step leaves
\* every other record where it stands and a pending record can always take
\* its next step; the INSERT of a record that is not rejected at that step
\* stores the line; the edge pass starts only when every record is settled,
\* holds an entry for every fulfilled record and runs to its end; and the call
\* never ends by an exception.
C18_PartialFailure ==
  /\ [][\A k \in 1..Len(imp.recs) :
          (imp.recs'[k].pc = "rejected" /\ imp.recs[k].pc # "rejected") =>
            \A j \in 1..Len(imp.recs) : j # k => imp.recs'[j] = imp.recs[j]]_vars
  /\ [](\A k \in 1..Len(imp.recs) :
          Pending(imp.recs[k]) =>
            ENABLED (RecFind(k) \/ RecInsert(k) \/ RecUpdateAccuracy(k)
                       \/ RecUpdateType(k)))
  /\ [][\A k \in 1..Len(imp.recs) :
          (/\ imp.recs[k].pc = "insert" /\ imp.recs'[k].pc # "insert"
           /\ sev'.op = "recInsert"
           /\ ~signals[imp.recs[k].line.name].exists) =>
            /\ signals'[imp.recs[k].line.name].exists
            /\ signals'[imp.recs[k].line.name].accuracy = imp.recs[k].line.accuracy]_vars
  /\ [](\A f \in Files :
          imp.phase[f] \in {"edges", "done"} =>
            \A k \in RecsOf(imp.recs, f) :
              /\ Settled(imp.recs[k])
              /\ imp.recs[k].pc = "fulfilled" =>
                   \E i \in 1..Len(imp.toAdd[f]) :
                     imp.toAdd[f][i].name = imp.recs[k].line.name)
  /\ [][\A f \in Files :
          (imp.phase[f] = "records" /\ imp.phase'[f] # "records") =>
            imp.queue'[f] = EdgeOps(imp.toAdd'[f])]_vars
  /\ [](\A f \in Files :
          /\ imp.phase[f] # "thrown"
          /\ imp.phase[f] = "done" => imp.queue[f] = <<>>)

\* One record of data/signals.csv was rejected, the other one, the new signal
\* A1_2A, is stored and the edge pass has inserted its prev edge and ended.
C18_Witness ==
  /\ imp.phase[1] = "done"
  /\ \E j, k \in RecsOf(imp.recs, 1) :
       /\ imp.recs[j].pc = "rejected"
       /\ imp.recs[k].pc = "fulfilled"
       /\ imp.recs[k].line.name = "A1_2A"
  /\ signals["A1_2A"].exists
  /\ prev_signals[<<"A1_2A", "A1_2">>] > 0

\* C19: a step of the live path adds a row to next_signals or prev_signals
\* only when both signals of the row are stored records.
C19_EdgesBetweenKnown ==
  [][\A row \in EdgeRows :
       (next_signals'[row] > next_signals[row]
          \/ prev_signals'[row] > prev_signals[row]) =>
         /\ row[2] \in SignalIds
         /\ signals[row[1]].exists
         /\ signals[row[2]].exists]_vars

\* C20 as stated: the prev edge kept by the pruning ends in an uppercase
\* letter exactly when the current signal's id does.
C20_KeptPrevSharesLetterSuffix ==
  sev.op = "deletePrev" => (EndsInUppercase(sev.id) <=> EndsInUppercase(sev.keep))

\* The vehicle went from a cached previous signal to the current one, a
\* stored record; both ids are block signals, the current signal has more
\* than one prev edge when they are re-read, and c is its one candidate on the
\* current id's side of the direction pattern strictly nearest to the vehicle.
C20_Case(c) ==
  LET rows == SelectOthers(prev_signals, CurId(run))
      possible == PossibleOthers(rows, CurId(run))
      dist(n) == CandidateDistance(SelectPoints(possible), n, CurPos(run))
  IN /\ BLOCK_SIGNAL_REGEX(Chars(run.prevSignalId))
     /\ BLOCK_SIGNAL_REGEX(Chars(CurId(run)))
     /\ RowCount(prev_signals, CurId(run)) > 1
     /\ c \in possible
     /\ \A m \in possible \ {c} : dist(c) < dist(m)

\* C20: in that case the re-read of the prev edges leads to the deletion and
\* the deletion keeps c; every deletion leaves the current signal with exactly
\* one prev edge, the kept one, and leaves the prev edges of every other
\* signal as they were; the kept edge was one of the current signal's and
\* matches the stricter direction pattern exactly when the current id does;
\* when no candidate passes the filter nothing is deleted; and prev edges are
\* deleted by no other step.
C20_MirroredPruning ==
  /\ [][\A c \in EdgeNames :
          (run.pc = "selectPrev" /\ run' # run /\ C20_Case(c)) =>
            run'.pc = "selectPrevPoints"]_vars
  /\ [][\A c \in EdgeNames :
          (run.pc = "selectPrevPoints" /\ run' # run /\ C20_Case(c)) =>
            (run'.pc = "deletePrev" /\ run'.keep = c)]_vars
  /\ [][(run.pc = "deletePrev" /\ run' # run) =>
          /\ SelectOthers(prev_signals', CurId(run)) = {run.keep}
          /\ RowCount(prev_signals', CurId(run)) = 1
          /\ \A row \in EdgeRows :
               row[1] # CurId(run) => prev_signals'[row] = prev_signals[row]]_vars
  /\ [](sev.op = "deletePrev" =>
          /\ sev.keep \in sev.before
          /\ BLOCK_SIGNAL_REVERSE_REGEX(Chars(sev.id))
               <=> BLOCK_SIGNAL_REVERSE_REGEX(Chars(sev.keep)))
  /\ [][(/\ run.pc = "selectPrev"
         /\ PossibleOthers(SelectOthers(prev_signals, CurId(run)), CurId(run)) = {}) =>
          (run'.pc \notin {"selectPrevPoints", "deletePrev"}
             /\ prev_signals' = prev_signals)]_vars
  /\ [][(\E row \in EdgeRows : prev_signals'[row] < prev_signals[row]) =>
          run.pc = "deletePrev"]_vars

\* A1_2 had the prev edges A1_2A and Sp_A and gained the one to A1_1; the
\* vehicle came from A1_1 and only one prev edge of A1_2 is left, while the
\* prev edge of A1_2A is as it was.
C20_Witness ==
  /\ sev.op = "deletePrev"
  /\ sev.id = "A1_2"
  /\ sev.before = {"A1_2A", "Sp_A", "A1_1"}
  /\ SelectOthers(prev_signals, "A1_2") = {sev.keep}
  /\ RowCount(prev_signals, "A1_2") = 1
  /\ prev_signals[<<"A1_2A", "A1_3A">>] = 1

\* What TrainPreviousSignals.get gives for vehicle k: "" for no entry or an
\* expired one.
LiveValue(c, k) == IF c[k].has /\ ~Stale(c[k]) THEN c[k].value ELSE ""

\* The calls awaited before and after TrainPreviousSignals.set of an
\* observation.
BeforeSet ==
  {"findMany", "findPrev", "insertNext", "selectNext", "selectNextPoints",
   "deleteNext", "insertPrev", "selectPrev", "selectPrevPoints", "deletePrev"}
AfterSet == {"findSignal", "updateAccuracy", "updateType"}

\* The observations whose TrainPreviousSignals.set a step from r to r2 runs
\* through: from the pending one (the next one when its set is already done)
\* to the one the run awaits next (the one before when its set is still to
\* come; the last one when the run has ended).
SetIn(r, r2) ==
  LET first == IF r.pc \in AfterSet THEN r.i + 1 ELSE Max(r.i, 1)
      last == IF r2.pc = "idle" THEN Len(r.trains)
              ELSE IF r2.pc \in AfterSet THEN r2.i ELSE r2.i - 1
  IN {k \in first..last : ~Skipped(r.trains[k])}

\* C21: the previous signal an observation is processed with is what the
\* cache gives for its vehicle ("" without a live entry); a step changes an
\* edge table only for an observation whose previous signal is not "" and
\* differs from its signal id; and every step that takes the run past the
\* cache update of an observation with coordinates and a SignalInFront leaves
\* the cache mapping the vehicle to the part of SignalInFront before @.
C21_NoTransitionNoEdgeChange ==
  /\ [][(run.pc # "idle" /\ run'.pc # "idle" /\ run'.i # run.i) =>
          run'.prevSignalId = LiveValue(cache, run.trains[run'.i].id)]_vars
  /\ [][(next_signals' # next_signals \/ prev_signals' # prev_signals) =>
          /\ run.pc # "idle"
          /\ run.prevSignalId # ""
          /\ run.prevSignalId # CurId(run)]_vars
  /\ [][(run.pc # "idle" /\ run' # run) =>
          \A k \in SetIn(run, run') : Recorded(cache', run.trains[k])]_vars

\* The vehicle was seen at A1_2 with A1_2 cached for it: the run has ended,
\* the cache still maps it to A1_2 and the edge tables are empty as before.
C21_Witness ==
  /\ sev.op = "findMany"
  /\ sev.keep = "A1_2"
  /\ run.pc = "idle"
  /\ cache[sev.id] = [has |-> TRUE, value |-> "A1_2", age |-> 0]
  /\ next_signals = EmptyTable
  /\ prev_signals = EmptyTable

\* C22: no step, of an import record or of the live path, changes the
\* classification of a stored signal that has one.
C22_ClassificationWriteOnce ==
  [][\A n \in SignalIds :
       (signals[n].exists /\ signals[n].type # "") =>
         signals'[n].type = signals[n].type]_vars

\* C23: as long as every awaited database call settles, a set guard is
\* cleared again; the guard is never set without a pending run; and an
\* "analyze" message that arrives while the guard is clear starts a run.
C23_GuardRelease ==
  /\ (running ~> ~running)
  /\ [](run.pc = "idle" => ~running)
  /\ [][(calls' # calls /\ ~running) => (running' /\ run'.pc = "findMany")]_vars

\* The findUnique of the high-confidence branch rejected: the run has ended,
\* the guard is clear and a further batch can arrive.
C23_Witness ==
  /\ sev.op = "dbFail"
  /\ sev.id = "findSignal"
  /\ run.pc = "idle"
  /\ ~running
  /\ calls < MaxCalls

(***************************************************************************)
(* Specifications: one per component, each holding the others idle.        *)
(***************************************************************************)
InitFetcher == FetcherInit /\ RouteIdle /\ SignalIdle
SpecFetcher == InitFetcher /\ [][FetcherNext]_vars

\* Node's event loop runs every armed timer that is not cleared.
SpecFetcherFair == SpecFetcher /\ WF_vars(TimerFire)

InitRoutes == RouteInit /\ FetcherIdle /\ SignalIdle
SpecRoutes == InitRoutes /\ [][RouteNext]_vars

InitLive == LiveInit /\ FetcherIdle /\ RouteIdle
SpecLive == InitLive /\ [][LiveNext]_vars

SpecRoutesFail == InitRoutes /\ [][RouteFailNext]_vars

SpecLiveFail == InitLive /\ [][LiveFailNext]_vars
SpecLiveFailFair == SpecLiveFail /\ WF_vars(CallSettles)

InitImportFail == ImportFailInit /\ FetcherIdle /\ RouteIdle
SpecImportFail == InitImportFail /\ [][ImportFailNext]_vars

InitImport == ImportInit /\ FetcherIdle /\ RouteIdle
Spec == InitImport /\ [][ImportNext]_vars

====
